---- MODULE Spec2Model ----
(***************************************************************************)
(* Model of the daily ingestion pipeline of insta-flow-tracker             *)
(* (src/etl/etl_daily.py over the tables of src/db/models.py).             *)
(*                                                                         *)
(* Text is a sequence of one-character strings, so that strip, replace,    *)
(* split and float are computed rather than assumed.  Python's None is the *)
(* one-element sequence None, which no text equals.                        *)
(*                                                                         *)
(* The store is modelled by two copies of the six tables: db, what is      *)
(* committed, and sess, what the run's session sees inside its open        *)
(* transaction (committed rows plus everything added or changed since the  *)
(* last commit or rollback).  The session autoflushes before every query,  *)
(* so a row given to session.add is seen by the next query of the same     *)
(* session; sess therefore holds added rows from the moment of the add.    *)
(***************************************************************************)
EXTENDS Integers, Sequences, FiniteSets, TLC

VARIABLES
    db,        \* committed tables
    sess,      \* the tables as the session's open transaction sees them
    today,     \* dt.date.today(), as a day number
    pc,        \* where run_daily is
    exc,       \* the exception that is propagating out of run_daily
    attempted, \* the connectors run_daily has called in this run
    frame,     \* local variables of the connector that is running
    printed,   \* the line the last step printed
    audit,     \* whether ingested is kept
    ingested,  \* the probe records that a committed batch has gone through
    lastOp,    \* the last operation of a direct client of the resolver
    issued,    \* identities the resolver gave out for rows that still exist
    overlap    \* two runs of ingest_ark_trades on sessions of their own

(***************************************************************************)
(* Bounds of the model.                                                    *)
(***************************************************************************)
MaxDay == 3      \* days the clock can reach
MaxRecs == 3     \* records in one payload
MaxFacts == 2    \* fact rows the store can hold, all tables together
MaxFilings == 2  \* entries of a submissions index

(***************************************************************************)
(* Python values.                                                          *)
(***************************************************************************)
None == <<"None">>

\* bool(x) of an Optional[str]
Truthy(x) == x # None /\ x # <<>>

Max(S) == CHOOSE m \in S : \A x \in S : x <= m

\* a JSON number, as opposed to a JSON string
JNum(n) == <<"num", n>>
IsNum(v) == Len(v) = 2 /\ v[1] = "num"

\* bool(x) of a JSON value: null, "" and 0 are false
JTruthy(v) == IF IsNum(v) THEN v[2] # 0 ELSE Truthy(v)

\* a or b
Or(a, b) == IF JTruthy(a) THEN a ELSE b

(***************************************************************************)
(* Text functions.                                                         *)
(***************************************************************************)
Space == " "
Digits == <<"0", "1", "2", "3", "4", "5", "6", "7", "8", "9">>
IsDigit(c) == \E i \in 1..10 : Digits[i] = c
DigitVal(c) == (CHOOSE i \in 1..10 : Digits[i] = c) - 1

RECURSIVE LStrip(_)
LStrip(s) == IF s # <<>> /\ Head(s) = Space THEN LStrip(Tail(s)) ELSE s

RECURSIVE RStrip(_)
RStrip(s) ==
    IF s # <<>> /\ s[Len(s)] = Space THEN RStrip(SubSeq(s, 1, Len(s) - 1)) ELSE s

\* str.strip()
Strip(s) == RStrip(LStrip(s))

\* str.replace(",", "")
RemoveCommas(s) == SelectSeq(s, LAMBDA c : c # ",")

RECURSIVE DigitsVal(_)
DigitsVal(s) ==
    IF s = <<>> THEN 0 ELSE 10 * DigitsVal(SubSeq(s, 1, Len(s) - 1)) + DigitVal(s[Len(s)])

\* the float that is not a number; SQLite stores it as NULL
NaN == 0 - 1
NanText == <<"n", "a", "n">>

\* float(s): surrounding blanks are allowed; "nan" is a float; ValueError
\* when what is left is not a number.  The numbers of the model's texts are
\* unsigned whole numbers.
Float(s) ==
    LET t == Strip(s) IN
    IF t = NanText THEN [ok |-> TRUE, v |-> NaN]
    ELSE IF t # <<>> /\ \A i \in 1..Len(t) : IsDigit(t[i])
    THEN [ok |-> TRUE, v |-> DigitsVal(t)]
    ELSE [ok |-> FALSE, v |-> 0]

\* x * y on floats
Times(x, y) == IF x = NaN \/ y = NaN THEN NaN ELSE x * y

\* column == value in a filter: never true of NULL
SqlEq(stored, v) == stored # NaN /\ v # NaN /\ stored = v

RECURSIVE NatText(_)
NatText(n) ==
    IF n < 10 THEN <<Digits[n + 1]>> ELSE NatText(n \div 10) \o <<Digits[(n % 10) + 1]>>

\* str(v) of a JSON value that is not null
Str(v) == IF IsNum(v) THEN NatText(v[2]) ELSE v

\* s.split()[0]; <<>> stands for the IndexError of an all-blank text
RECURSIVE UpToSpace(_)
UpToSpace(s) ==
    IF s = <<>> \/ Head(s) = Space THEN <<>> ELSE <<Head(s)>> \o UpToSpace(Tail(s))
FirstWord(s) == UpToSpace(LStrip(s))

\* dt.date.fromisoformat on the date texts of the model: two ISO dates, and
\* everything else a ValueError
IsoA == <<"2024-01-02">>
IsoB == <<"2024-01-03">>
NotIso == <<"01/02/2024">>
FromIsoFormat(s) ==
    IF s = IsoA THEN [ok |-> TRUE, day |-> 2]
    ELSE IF s = IsoB THEN [ok |-> TRUE, day |-> 3]
    ELSE [ok |-> FALSE, day |-> 0]

(***************************************************************************)
(* Tables (src/db/models.py).  Company.sector and Company.country are      *)
(* never written by the pipeline and are left out.                         *)
(***************************************************************************)
EmptyTables ==
    [companies |-> {}, funds |-> {}, holdings |-> {},
     awards |-> {}, patents |-> {}, etf_trades |-> {}]

\* INTEGER PRIMARY KEY of SQLite: one more than the largest id in the table
NextId(rows) == IF rows = {} THEN 1 ELSE Max({r.id : r \in rows}) + 1

\* Query.one_or_none(): the row, None, or MultipleResultsFound
ResultNone == "none"
ResultOne == "one"
ResultMany == "many"
OneOrNone(rows) ==
    IF rows = {} THEN [kind |-> ResultNone]
    ELSE IF Cardinality(rows) = 1
         THEN [kind |-> ResultOne, row |-> CHOOSE r \in rows : TRUE]
         ELSE [kind |-> ResultMany]

(***************************************************************************)
(* Entity resolver.  Each operator gives the session view after the call,  *)
(* the id of the row returned, and the exception the call raised, if any   *)
(* (one_or_none on several rows).                                          *)
(***************************************************************************)
ExcNone == ""
ExcMany == "MultipleResultsFound"

\* a backfill that overwrites what is stored
BackfillAlways(new, stored) == Truthy(new)

\* "if ticker and not company.ticker"
Backfill(new, stored) == Truthy(new) /\ ~Truthy(stored)

\* a resolver that never finds the row it looks for
LookupNothing(rows, name) == {}

\* a lookup that takes names for equal when they differ in surrounding blanks
LookupByStrippedName(rows, name) == {r \in rows : Strip(r.name) = Strip(name)}

\* session.query(Company).filter(Company.name == name)
LookupByName(rows, name) == {r \in rows : r.name = name}

GetOrCreateCompany(s, name, ticker, cik) ==
    LET q == OneOrNone(LookupByName(s.companies, name)) IN
    IF q.kind = ResultMany THEN [sess |-> s, id |-> 0, exc |-> ExcMany]
    ELSE IF q.kind = ResultNone
    THEN LET id == NextId(s.companies)
             row == [id |-> id, name |-> name, ticker |-> ticker, cik |-> cik]
         IN  [sess |-> [s EXCEPT !.companies = @ \cup {row}],
              id |-> id, exc |-> ExcNone]
    ELSE LET c == q.row
             c2 == [c EXCEPT
                      !.ticker = IF Backfill(ticker, c.ticker) THEN ticker ELSE @,
                      !.cik = IF Backfill(cik, c.cik) THEN cik ELSE @]
         IN  [sess |-> [s EXCEPT !.companies = (@ \ {c}) \cup {c2}],
              id |-> c.id, exc |-> ExcNone]

GetOrCreateFund(s, name, fund_type) ==
    LET q == OneOrNone(LookupByName(s.funds, name)) IN
    IF q.kind = ResultMany THEN [sess |-> s, id |-> 0, exc |-> ExcMany]
    ELSE IF q.kind = ResultNone
    THEN LET id == NextId(s.funds)
             row == [id |-> id, name |-> name, type |-> fund_type]
         IN  [sess |-> [s EXCEPT !.funds = @ \cup {row}],
              id |-> id, exc |-> ExcNone]
    ELSE LET f == q.row
             f2 == [f EXCEPT
                      !.type = IF Backfill(fund_type, f.type) THEN fund_type ELSE @]
         IN  [sess |-> [s EXCEPT !.funds = (@ \ {f}) \cup {f2}],
              id |-> f.id, exc |-> ExcNone]

(***************************************************************************)
(* run_daily and what its connectors share.                                *)
(***************************************************************************)
Tag13F == "13F"
TagAwards == "Awards"
TagPatents == "Patents"
TagETF == "ETF"
Connectors == {Tag13F, TagAwards, TagPatents, TagETF}

\* the exceptions no connector catches
ExcJson == "JSONDecodeError"
ExcType == "TypeError"
ExcIndex == "IndexError"
ExcStore == "SQLAlchemyError"

\* the lines a connector prints before it returns
MsgFetch == "Unable to fetch"
MsgNoFiling == "No 13F-HR filings found"
MsgNoDocument == "Unable to locate holdings table"
MsgParse == "Unable to parse holdings XML"
MsgCommit == "Failed to commit"
MsgUpserted == "Upserted"
Silent == [tag |-> "", msg |-> "", count |-> 0]

\* the counts a printed line gives: "Upserted {created} holdings ..." gives
\* the number of rows inserted, the other lines give none
CountInserted == "inserted"
CountSkipped == "skipped"
CountsReported(msg) == IF msg = MsgUpserted THEN {CountInserted} ELSE {}

\* name, filed, date, fund_id and created (inserted) are variables of the
\* code; requests is how many candidate documents were requested and doc the
\* path of info_resp ("": info_resp is None); latest is whether no other
\* 13F-HR entry of the index has a later date than the one selected.  The others record what the loop has done: invalid and dup count
\* the records skipped at validation and at the dedup gate, novalue those
\* without a value, miscased is whether a row was skipped whose cells hold a
\* date and a value under column names in another casing, differs is whether a record the gate discarded differed
\* from the stored row, probed whether the probe record went by, readded
\* whether a row was staged for a probe record already in ingested.
NoFrame ==
    [name |-> None, filed |-> None, latest |-> TRUE, date |-> 0,
     requests |-> 0, doc |-> "", fund_id |-> 0, created |-> 0,
     invalid |-> 0, dup |-> 0, novalue |-> 0, miscased |-> FALSE,
     differs |-> FALSE, probed |-> FALSE, readded |-> FALSE]

Iterated(f) == f.created + f.invalid + f.dup

FactCount(s) ==
    Cardinality(s.holdings) + Cardinality(s.awards)
        + Cardinality(s.patents) + Cardinality(s.etf_trades)

ProbeId(tag, f) == [tag |-> tag, filed |-> f.filed]

\* the frame after a record: the probe record is noted when audit is on
Probe(f, tag, isProbe, staged) ==
    IF audit /\ isProbe
    THEN [f EXCEPT !.probed = TRUE,
                   !.readded = @ \/ (staged /\ ProbeId(tag, f) \in ingested)]
    ELSE f
Skipped(f, tag, isProbe, noValue) ==
    Probe([f EXCEPT !.invalid = @ + 1,
                    !.novalue = @ + (IF noValue THEN 1 ELSE 0)],
          tag, isProbe, FALSE)
Discarded(f, tag, isProbe, differs) ==
    Probe([f EXCEPT !.dup = @ + 1, !.differs = @ \/ differs], tag, isProbe, FALSE)
Staged(f, tag, isProbe) ==
    Probe([f EXCEPT !.created = @ + 1], tag, isProbe, TRUE)

\* the order of the calls in run_daily
PcIdle == "idle"
PcFinally == "finally"
Pc13F == "fetch_latest_13f_holdings"
Pc13FDoc == "fetch_latest_13f_holdings:document"
Pc13FLoop == "fetch_latest_13f_holdings:loop"
PcAwards == "ingest_usaspending_awards"
PcAwardsLoop == "ingest_usaspending_awards:loop"
PcPatents == "ingest_patents"
PcPatentsLoop == "ingest_patents:loop"
PcETF == "ingest_ark_trades"
PcETFLoop == "ingest_ark_trades:loop"

AfterOf(tag) ==
    IF tag = Tag13F THEN PcAwards
    ELSE IF tag = TagAwards THEN PcPatents
    ELSE IF tag = TagPatents THEN PcETF
    ELSE PcFinally

CalledAt(p) ==
    IF p = PcAwards THEN {TagAwards}
    ELSE IF p = PcPatents THEN {TagPatents}
    ELSE IF p = PcETF THEN {TagETF}
    ELSE {}

\* the connector prints msg and returns; run_daily calls the next one
Return(tag, msg, count) ==
    /\ printed' = [tag |-> tag, msg |-> msg, count |-> count]
    /\ pc' = AfterOf(tag)
    /\ attempted' = attempted \cup CalledAt(AfterOf(tag))
    /\ frame' = NoFrame
    /\ exc' = ExcNone

\* the exception e leaves the connector and reaches run_daily's finally
Raise(e) ==
    /\ pc' = PcFinally
    /\ exc' = e
    /\ frame' = NoFrame
    /\ printed' = Silent
    /\ UNCHANGED attempted

\* the connector goes on at program point p
Goto(p, f) ==
    /\ pc' = p
    /\ frame' = f
    /\ printed' = Silent
    /\ UNCHANGED <<attempted, exc>>

\* a rollback that keeps what the transaction had written
RollbackKeeps(d, s) == s

\* a rollback that leaves the session with no row at all
RollbackToEmpty(d, s) == EmptyTables

\* session.rollback(), and session.close(): the open transaction is dropped
Rollback(d, s) == d

\* a commit that persists the fact rows and not the dimension rows
CommitFactsOnly(d, s) == [s EXCEPT !.companies = d.companies, !.funds = d.funds]

\* session.commit(): the open transaction becomes the committed state
Commit(d, s) == s

\* the tables a connector queries, adds to or changes
Touches(tag) ==
    IF tag = Tag13F THEN {"funds", "companies", "holdings"}
    ELSE IF tag = TagAwards THEN {"companies", "awards"}
    ELSE IF tag = TagPatents THEN {"companies", "patents"}
    ELSE {"etf_trades"}

\* a connector end that commits whether or not a fact row was staged
FinishCommitsAlways(tag, commitOk) ==
    /\ db' = Commit(db, sess)
    /\ sess' = sess
    /\ UNCHANGED ingested
    /\ Return(tag, MsgUpserted, frame.created)

\* "if created: try: session.commit() except SQLAlchemyError: rollback"
\* and the final print; commitOk is whether the store accepts the commit
Finish(tag, commitOk) ==
    IF frame.created = 0
    THEN /\ UNCHANGED <<db, sess, ingested>>
         /\ Return(tag, MsgUpserted, 0)
    ELSE IF commitOk
    THEN /\ db' = Commit(db, sess)
         /\ sess' = sess
         /\ ingested' = ingested \cup
                          (IF frame.probed THEN {ProbeId(tag, frame)} ELSE {})
         /\ Return(tag, MsgUpserted, frame.created)
    ELSE /\ db' = db
         /\ sess' = Rollback(db, sess)
         /\ UNCHANGED ingested
         /\ Return(tag, MsgCommit, 0)

\* session = SessionLocal(), and the first connector is called
StartRun ==
    /\ pc = PcIdle
    /\ pc' = Pc13F
    /\ sess' = db
    /\ attempted' = {Tag13F}
    /\ printed' = Silent
    /\ UNCHANGED <<db, today, exc, frame, audit, ingested, lastOp, issued, overlap>>

\* finally: session.close(); the exception, if any, leaves run_daily
Close ==
    /\ pc = PcFinally
    /\ sess' = Rollback(db, sess)
    /\ pc' = PcIdle
    /\ exc' = ExcNone
    /\ attempted' = {}
    /\ printed' = Silent
    /\ UNCHANGED <<db, today, frame, audit, ingested, lastOp, issued, overlap>>

\* a day passes between two runs
Tick ==
    /\ pc = PcIdle
    /\ today < MaxDay
    /\ today' = today + 1
    /\ UNCHANGED <<db, sess, pc, exc, attempted, frame, printed, audit, ingested,
                   lastOp, issued, overlap>>

\* requests.get / requests.post followed by raise_for_status
RespOk == "ok"
RespStatus == "non-success status"
RespNetwork == "network error or timeout"
Responses == {RespOk, RespStatus, RespNetwork}

\* what the steps of a connector before its loop, and the steps of its loop,
\* leave alone
Rest == <<today, audit, lastOp, issued, overlap>>

(***************************************************************************)
(* fetch_latest_13f_holdings                                               *)
(***************************************************************************)
Form13F == "13F-HR"
FormOther == "10-K"
FundType13F == <<"1", "3", "F">>     \* "13F filer"
Source13F == "SEC 13F"
CikFundName == <<"C", "I", "K">>     \* f"CIK {cik_trimmed}"

\* the submissions index: recent.form and recent.filingDate, entry by entry
IndexEntries == {[form |-> f, filingDate |-> d] :
                    f \in {Form13F, FormOther}, d \in {IsoA, IsoB, NotIso}}
Indexes == UNION {[1..n -> IndexEntries] : n \in 0..MaxFilings}

\* "for idx, form in enumerate(forms): if form == '13F-HR': ... break";
\* 0 stands for target_index None
TargetIndex(index, form) ==
    IF \E i \in 1..Len(index) : index[i].form = form
    THEN CHOOSE i \in 1..Len(index) :
            /\ index[i].form = form
            /\ \A j \in 1..(i - 1) : index[j].form # form
    ELSE 0

\* no entry of the index with this form has a later filing date than entry
\* t (dates that do not parse are left out of the comparison)
IsLatest(index, t, form) ==
    \A j \in 1..Len(index) :
        (/\ index[j].form = form
         /\ FromIsoFormat(index[j].filingDate).ok
         /\ FromIsoFormat(index[t].filingDate).ok) =>
            FromIsoFormat(index[j].filingDate).day <= FromIsoFormat(index[t].filingDate).day

\* "try: fromisoformat(filing_date_str) except ValueError: date.today()"
FilingDate(text, now) ==
    LET d == FromIsoFormat(text) IN IF d.ok THEN d.day ELSE now

\* possible_paths, in the order of the loop
PossiblePaths == <<"form13fInfoTable.xml", "infotable.xml", "primary_doc.xml">>

\* a lookup loop without its break
LookupExhausted(f) == f.requests = Len(PossiblePaths)

\* the loop over possible_paths is over: "break" or no path is left
LookupDone(f) == f.doc # "" \/ f.requests = Len(PossiblePaths)

\* submissions.get("name")
SubmissionNames == {<<"F">>}

\* a handler that prints and lets the exception go on
F13FetchReraises(resp) ==
    /\ pc = Pc13F
    /\ resp # RespOk
    /\ printed' = [tag |-> Tag13F, msg |-> MsgFetch, count |-> 0]
    /\ pc' = PcFinally
    /\ exc' = "RequestException"
    /\ frame' = NoFrame
    /\ UNCHANGED <<db, sess, attempted, ingested>>
    /\ UNCHANGED Rest

\* lines 77-86: the submissions feed cannot be pulled
F13FetchFails(resp) ==
    /\ pc = Pc13F
    /\ resp # RespOk
    /\ Return(Tag13F, MsgFetch, 0)
    /\ UNCHANGED <<db, sess, ingested>>
    /\ UNCHANGED Rest

\* line 88: submissions_resp.json() on a body that is not JSON
F13BadJson ==
    /\ pc = Pc13F
    /\ Raise(ExcJson)
    /\ UNCHANGED <<db, sess, ingested>>
    /\ UNCHANGED Rest

\* lines 88-109: the filing is chosen and its date parsed
F13Select(name, index) ==
    /\ pc = Pc13F
    /\ LET target == TargetIndex(index, Form13F) IN
       IF target = 0
       THEN Return(Tag13F, MsgNoFiling, 0)
       ELSE Goto(Pc13FDoc,
                 [NoFrame EXCEPT
                    !.name = name,
                    !.filed = index[target].filingDate,
                    !.latest = IsLatest(index, target, Form13F),
                    !.date = FilingDate(index[target].filingDate, today)])
    /\ UNCHANGED <<db, sess, ingested>>
    /\ UNCHANGED Rest

\* lines 118-127: one pass of the loop over possible_paths; a candidate
\* that does not answer or answers with a failure status is passed over
F13Request(resp) ==
    /\ pc = Pc13FDoc
    /\ ~LookupDone(frame)
    /\ Goto(Pc13FDoc,
            [frame EXCEPT
               !.requests = @ + 1,
               !.doc = IF resp = RespOk THEN PossiblePaths[frame.requests + 1] ELSE @])
    /\ UNCHANGED <<db, sess, ingested>>
    /\ UNCHANGED Rest

\* lines 129-154: the detail document is parsed and the fund resolved;
\* info_resp and the index are not used after the parse
F13Document(xmlOk) ==
    /\ pc = Pc13FDoc
    /\ LookupDone(frame)
    /\ IF frame.doc = ""
       THEN Return(Tag13F, MsgNoDocument, 0) /\ UNCHANGED sess
       ELSE IF ~xmlOk
       THEN Return(Tag13F, MsgParse, 0) /\ UNCHANGED sess
       ELSE LET fund_name == IF Truthy(frame.name) THEN frame.name ELSE CikFundName
                r == GetOrCreateFund(sess, fund_name, FundType13F)
            IN  IF r.exc # ExcNone
                THEN Raise(r.exc) /\ UNCHANGED sess
                ELSE /\ sess' = r.sess
                     /\ Goto(Pc13FLoop,
                             [frame EXCEPT !.fund_id = r.id, !.requests = 0, !.doc = "",
                                           !.latest = TRUE])
    /\ UNCHANGED <<db, ingested>>
    /\ UNCHANGED Rest

\* _find(table, tag) on the text of the element (None: no such element)
Find(raw) == IF raw = None \/ raw = <<>> THEN None ELSE Strip(raw)

\* the line items of the filing table: complete ones, and ones with one
\* defect
BaseItem == [nameOfIssuer |-> <<"A">>, cusip |-> <<"X">>, value |-> <<"5">>]
GoodItems ==
    {BaseItem,
     [BaseItem EXCEPT !.value = <<"1", ",", "2">>],
     [BaseItem EXCEPT !.nameOfIssuer = <<"B", " ">>],
     [BaseItem EXCEPT !.cusip = None]}
BadItems ==
    {[BaseItem EXCEPT !.nameOfIssuer = None],
     [BaseItem EXCEPT !.value = None],
     [BaseItem EXCEPT !.value = <<" ">>],
     [BaseItem EXCEPT !.value = <<"x">>]}
Items == GoodItems \cup BadItems

\* "* 1000.0": the reported value is in thousands
Scale == 1000

\* lines 158-167: what validation makes of a line item
ItemValue(item) ==
    LET issuer == Find(item.nameOfIssuer)
        value_str == Find(item.value)
    IN  IF ~Truthy(issuer) \/ ~Truthy(value_str)
        THEN [ok |-> FALSE, v |-> 0]
        ELSE LET f == Float(RemoveCommas(value_str))
             IN  [ok |-> f.ok, v |-> Times(f.v, Scale)]

\* a dedup gate that lets every candidate through
HoldingNothing(s, date, fund_id, company_id) == {}

\* lines 171-180
HoldingExisting(s, date, fund_id, company_id) ==
    {h \in s.holdings :
        /\ h.date = date
        /\ h.fund_id = fund_id
        /\ h.company_id = company_id
        /\ h.source = Source13F}

\* lines 157-190: one pass of the loop over the line items
F13Record(item) ==
    /\ pc = Pc13FLoop
    /\ Iterated(frame) < MaxRecs
    /\ LET val == ItemValue(item)
           probe == (item = BaseItem)
       IN
       IF ~val.ok
       THEN /\ Goto(Pc13FLoop,
                    Skipped(frame, Tag13F, probe, ~Truthy(Find(item.value))))
            /\ UNCHANGED sess
       ELSE LET r == GetOrCreateCompany(sess, Find(item.nameOfIssuer),
                                        Find(item.cusip), None)
                q == OneOrNone(HoldingExisting(r.sess, frame.date, frame.fund_id, r.id))
            IN  IF r.exc # ExcNone \/ q.kind = ResultMany
                THEN Raise(ExcMany) /\ UNCHANGED sess
                ELSE IF q.kind = ResultOne
                THEN /\ sess' = r.sess
                     /\ Goto(Pc13FLoop,
                             Discarded(frame, Tag13F, probe, q.row.pos_usd # val.v))
                ELSE /\ FactCount(sess) < MaxFacts
                     /\ sess' = [r.sess EXCEPT !.holdings = @ \cup
                                   {[id |-> NextId(r.sess.holdings),
                                     date |-> frame.date,
                                     fund_id |-> frame.fund_id,
                                     company_id |-> r.id,
                                     pos_usd |-> val.v,
                                     source |-> Source13F]}]
                     /\ Goto(Pc13FLoop, Staged(frame, Tag13F, probe))
    /\ UNCHANGED <<db, ingested>>
    /\ UNCHANGED Rest

\* a query or a flush of the connector is refused by the store: the
\* SQLAlchemyError is not caught
F13StoreError ==
    /\ pc \in {Pc13FDoc, Pc13FLoop}
    /\ pc = Pc13FDoc => frame.doc # ""
    /\ Iterated(frame) < MaxRecs
    /\ Raise(ExcStore)
    /\ UNCHANGED <<db, sess, ingested>>
    /\ UNCHANGED Rest

\* lines 192-200
F13Finish(commitOk) ==
    /\ pc = Pc13FLoop
    /\ Finish(Tag13F, commitOk)
    /\ UNCHANGED Rest

(***************************************************************************)
(* ingest_usaspending_awards                                               *)
(***************************************************************************)
SourceAwards == "USAspending"
UnknownAgency == <<"U", "n", "k">>     \* "Unknown Agency"
DateNumber == JNum(20240102)           \* a date sent as a JSON number

\* the results of the search: complete ones, and ones with one defect
BaseAward ==
    [action |-> IsoA, modified |-> None, start |-> None, agency |-> <<"G">>,
     recipient |-> <<"A">>, amount |-> JNum(7), category |-> None,
     award_id |-> <<"P">>]
GoodAwards ==
    {BaseAward,
     [BaseAward EXCEPT !.amount = <<"1", ",", "2">>],
     [BaseAward EXCEPT !.amount = NanText],
     [BaseAward EXCEPT !.agency = None],
     [BaseAward EXCEPT !.recipient = <<"A", " ">>],
     [BaseAward EXCEPT !.action = None, !.modified = IsoA],
     [BaseAward EXCEPT !.action = None, !.start = IsoA, !.category = <<"Q">>]}
BadAwards ==
    {[BaseAward EXCEPT !.action = None],
     [BaseAward EXCEPT !.action = NotIso],
     [BaseAward EXCEPT !.action = DateNumber],
     [BaseAward EXCEPT !.recipient = None],
     [BaseAward EXCEPT !.amount = None],
     [BaseAward EXCEPT !.amount = <<>>],
     [BaseAward EXCEPT !.amount = <<"x">>]}
Awards == GoodAwards \cup BadAwards

\* lines 233-240
AwardsFetchFails(resp) ==
    /\ pc = PcAwards
    /\ resp # RespOk
    /\ Return(TagAwards, MsgFetch, 0)
    /\ UNCHANGED <<db, sess, ingested>>
    /\ UNCHANGED Rest

\* line 242: response.json() on a body that is not JSON
AwardsBadJson ==
    /\ pc = PcAwards
    /\ Raise(ExcJson)
    /\ UNCHANGED <<db, sess, ingested>>
    /\ UNCHANGED Rest

\* lines 242-245
AwardsBegin ==
    /\ pc = PcAwards
    /\ Goto(PcAwardsLoop, NoFrame)
    /\ UNCHANGED <<db, sess, ingested>>
    /\ UNCHANGED Rest

ValidationSkip == "skip"
ValidationRaise == "raise"
ValidationOk == "ok"

\* dt.date.fromisoformat(x): TypeError unless x is a str
ParseDate(x) ==
    IF IsNum(x) THEN [kind |-> ValidationRaise, day |-> 0]
    ELSE LET d == FromIsoFormat(x)
         IN  IF d.ok THEN [kind |-> ValidationOk, day |-> d.day]
             ELSE [kind |-> ValidationSkip, day |-> 0]

\* lines 247-270: what validation makes of an award
AwardFields(award) ==
    LET date_signed == Or(award.action, Or(award.modified, award.start))
        bad(k) == [kind |-> k, day |-> 0, amount |-> 0]
    IN  IF ~JTruthy(date_signed) THEN bad(ValidationSkip)
        ELSE LET d == ParseDate(date_signed) IN
        IF d.kind # ValidationOk THEN bad(d.kind)
        ELSE IF ~Truthy(award.recipient) \/ award.amount = None \/ award.amount = <<>>
        THEN bad(ValidationSkip)
        ELSE LET f == Float(RemoveCommas(Str(award.amount)))
             IN  IF f.ok THEN [kind |-> ValidationOk, day |-> d.day, amount |-> f.v]
                 ELSE bad(ValidationSkip)

\* lines 274-283
AwardExisting(s, date, company_id, amount) ==
    {a \in s.awards :
        /\ a.date = date
        /\ a.company_id = company_id
        /\ SqlEq(a.amount_usd, amount)
        /\ a.source = SourceAwards}

\* lines 246-297: one pass of the loop over the results
AwardsRecord(award) ==
    /\ pc = PcAwardsLoop
    /\ Iterated(frame) < MaxRecs
    /\ LET val == AwardFields(award)
           probe == (award = BaseAward)
       IN
       IF val.kind = ValidationRaise
       THEN Raise(ExcType) /\ UNCHANGED sess
       ELSE IF val.kind = ValidationSkip
       THEN /\ Goto(PcAwardsLoop, Skipped(frame, TagAwards, probe, FALSE))
            /\ UNCHANGED sess
       ELSE LET r == GetOrCreateCompany(sess, award.recipient, None, None)
                program == Or(award.category, award.award_id)
                agency == IF Truthy(award.agency) THEN award.agency ELSE UnknownAgency
                q == OneOrNone(AwardExisting(r.sess, val.day, r.id, val.amount))
            IN  IF r.exc # ExcNone \/ q.kind = ResultMany
                THEN Raise(ExcMany) /\ UNCHANGED sess
                ELSE IF q.kind = ResultOne
                THEN /\ sess' = r.sess
                     /\ Goto(PcAwardsLoop,
                             Discarded(frame, TagAwards, probe,
                                       q.row.agency # agency \/ q.row.program # program))
                ELSE /\ FactCount(sess) < MaxFacts
                     /\ sess' = [r.sess EXCEPT !.awards = @ \cup
                                   {[id |-> NextId(r.sess.awards),
                                     date |-> val.day,
                                     agency |-> agency,
                                     recipient |-> award.recipient,
                                     company_id |-> r.id,
                                     amount_usd |-> val.amount,
                                     program |-> program,
                                     source |-> SourceAwards]}]
                     /\ Goto(PcAwardsLoop, Staged(frame, TagAwards, probe))
    /\ UNCHANGED <<db, ingested>>
    /\ UNCHANGED Rest

\* a flush or a query of the loop is refused by the store
AwardsStoreError ==
    /\ pc = PcAwardsLoop
    /\ Iterated(frame) < MaxRecs
    /\ Raise(ExcStore)
    /\ UNCHANGED <<db, sess, ingested>>
    /\ UNCHANGED Rest

\* lines 299-307
AwardsFinish(commitOk) ==
    /\ pc = PcAwardsLoop
    /\ Finish(TagAwards, commitOk)
    /\ UNCHANGED Rest

(***************************************************************************)
(* ingest_patents                                                          *)
(***************************************************************************)
\* the abstract_inverted_index of a work, as its <<position, word>> pairs in
\* the order of the payload (None: the work has none); the words are joined
\* in the order of their positions
RECURSIVE JoinByPosition(_)
JoinByPosition(tokens) ==
    IF Len(tokens) = 0 THEN <<>>
    ELSE LET i == CHOOSE k \in 1..Len(tokens) :
                    /\ \A j \in 1..Len(tokens) : tokens[k][1] <= tokens[j][1]
                    /\ \A j \in 1..(k - 1) : tokens[j][1] # tokens[k][1]
             rest == JoinByPosition([j \in 1..(Len(tokens) - 1) |->
                                       IF j < i THEN tokens[j] ELSE tokens[j + 1]])
         IN  IF rest = <<>> THEN tokens[i][2]
             ELSE tokens[i][2] \o <<Space>> \o rest

\* _reconstruct_abstract (lines 334-342)
ReconstructAbstract(index) ==
    IF index = None \/ index = <<>> THEN None ELSE JoinByPosition(index)

\* "institutions[0] if institutions else None" over the display names of the
\* institutions of the authorships, in order
RECURSIVE FirstNamed(_)
FirstNamed(names) ==
    IF names = <<>> THEN None
    ELSE IF Truthy(Head(names)) THEN Head(names)
    ELSE FirstNamed(Tail(names))

AbstractIndex == <<<<1, <<"k">>>>, <<0, <<"j">>>>>>

\* the works of the search: complete ones, and ones with one defect
BaseWork ==
    [display_name |-> <<"A">>, publication_date |-> IsoA, institutions |-> <<>>,
     abstract_inverted_index |-> None, id |-> <<"u">>]
GoodWorks ==
    {BaseWork,
     [BaseWork EXCEPT !.display_name = <<"A", " ", "q">>],
     [BaseWork EXCEPT !.institutions = <<None, <<"B">>>>],
     [BaseWork EXCEPT !.abstract_inverted_index = AbstractIndex, !.id = None]}
BadWorks ==
    {[BaseWork EXCEPT !.display_name = None],
     [BaseWork EXCEPT !.display_name = <<" ">>],
     [BaseWork EXCEPT !.publication_date = None],
     [BaseWork EXCEPT !.publication_date = NotIso],
     [BaseWork EXCEPT !.publication_date = DateNumber]}
Works == GoodWorks \cup BadWorks

\* lines 322-329
PatentsFetchFails(resp) ==
    /\ pc = PcPatents
    /\ resp # RespOk
    /\ Return(TagPatents, MsgFetch, 0)
    /\ UNCHANGED <<db, sess, ingested>>
    /\ UNCHANGED Rest

\* line 331: response.json() on a body that is not JSON
PatentsBadJson ==
    /\ pc = PcPatents
    /\ Raise(ExcJson)
    /\ UNCHANGED <<db, sess, ingested>>
    /\ UNCHANGED Rest

\* lines 331-344
PatentsBegin ==
    /\ pc = PcPatents
    /\ Goto(PcPatentsLoop, NoFrame)
    /\ UNCHANGED <<db, sess, ingested>>
    /\ UNCHANGED Rest

\* lines 346-366: what validation makes of a work, and the company name
WorkFields(work) ==
    LET bad(k) == [kind |-> k, day |-> 0, assignee |-> None, company |-> None,
                   exc |-> IF k = ValidationRaise THEN ExcType ELSE ExcNone]
    IN
    IF ~(Truthy(work.display_name) /\ JTruthy(work.publication_date))
    THEN bad(ValidationSkip)
    ELSE LET d == ParseDate(work.publication_date) IN
    IF d.kind # ValidationOk THEN bad(d.kind)
    ELSE LET assignee == FirstNamed(work.institutions) IN
    IF Truthy(assignee)
    THEN [kind |-> ValidationOk, day |-> d.day, assignee |-> assignee,
          company |-> assignee, exc |-> ExcNone]
    ELSE IF FirstWord(work.display_name) = <<>>
    THEN [bad(ValidationRaise) EXCEPT !.exc = ExcIndex]
    ELSE [kind |-> ValidationOk, day |-> d.day, assignee |-> None,
          company |-> FirstWord(work.display_name), exc |-> ExcNone]

\* lines 368-376
PatentExisting(s, pub_date, company_id, title) ==
    {p \in s.patents :
        /\ p.pub_date = pub_date
        /\ p.company_id = company_id
        /\ p.title = title}

\* lines 345-389: one pass of the loop over the works
PatentsRecord(work) ==
    /\ pc = PcPatentsLoop
    /\ Iterated(frame) < MaxRecs
    /\ LET val == WorkFields(work)
           probe == (work = BaseWork)
       IN
       IF val.kind = ValidationRaise
       THEN Raise(val.exc) /\ UNCHANGED sess
       ELSE IF val.kind = ValidationSkip
       THEN /\ Goto(PcPatentsLoop, Skipped(frame, TagPatents, probe, FALSE))
            /\ UNCHANGED sess
       ELSE LET r == GetOrCreateCompany(sess, val.company, None, None)
                keywords == ReconstructAbstract(work.abstract_inverted_index)
                q == OneOrNone(PatentExisting(r.sess, val.day, r.id, work.display_name))
            IN  IF r.exc # ExcNone \/ q.kind = ResultMany
                THEN Raise(ExcMany) /\ UNCHANGED sess
                ELSE IF q.kind = ResultOne
                THEN /\ sess' = r.sess
                     /\ Goto(PcPatentsLoop,
                             Discarded(frame, TagPatents, probe,
                                       q.row.keywords # keywords \/ q.row.url # work.id))
                ELSE /\ FactCount(sess) < MaxFacts
                     /\ sess' = [r.sess EXCEPT !.patents = @ \cup
                                   {[id |-> NextId(r.sess.patents),
                                     pub_date |-> val.day,
                                     company_id |-> r.id,
                                     assignee |-> val.assignee,
                                     title |-> work.display_name,
                                     keywords |-> keywords,
                                     url |-> work.id]}]
                     /\ Goto(PcPatentsLoop, Staged(frame, TagPatents, probe))
    /\ UNCHANGED <<db, ingested>>
    /\ UNCHANGED Rest

\* a flush or a query of the loop is refused by the store
PatentsStoreError ==
    /\ pc = PcPatentsLoop
    /\ Iterated(frame) < MaxRecs
    /\ Raise(ExcStore)
    /\ UNCHANGED <<db, sess, ingested>>
    /\ UNCHANGED Rest

\* lines 391-399
PatentsFinish(commitOk) ==
    /\ pc = PcPatentsLoop
    /\ Finish(TagPatents, commitOk)
    /\ UNCHANGED Rest

(***************************************************************************)
(* ingest_ark_trades                                                       *)
(***************************************************************************)
Etf == <<"A", "R", "K", "K">>
DirectionClose == "close"
SourceStooq == "Stooq"

\* the header of the feed: "Date,...,Close" or the same in lower case
HeaderCanonical == "Date,Close"
HeaderLower == "date,close"

\* the rows csv.DictReader yields, by the header of the feed and the two
\* cells (None: the row is short): complete ones, and ones with one defect
BaseRow == [header |-> HeaderCanonical, date |-> IsoA, close |-> <<"5">>]
GoodRows ==
    {BaseRow,
     [BaseRow EXCEPT !.close = <<"6">>],
     [BaseRow EXCEPT !.date = IsoB]}
BadRows ==
    {[BaseRow EXCEPT !.date = <<>>],
     [BaseRow EXCEPT !.date = NotIso],
     [BaseRow EXCEPT !.close = None],
     [BaseRow EXCEPT !.close = <<>>],
     [BaseRow EXCEPT !.close = <<"x">>],
     [BaseRow EXCEPT !.close = <<"1", ",", "2">>],
     [BaseRow EXCEPT !.header = HeaderLower]}
Rows == GoodRows \cup BadRows

\* row.get("Date"), row.get("Close")
RowGet(row, column) ==
    IF row.header # HeaderCanonical THEN None
    ELSE IF column = "Date" THEN row.date ELSE row.close

\* lines 407-412
ETFFetchFails(resp) ==
    /\ pc = PcETF
    /\ resp # RespOk
    /\ Return(TagETF, MsgFetch, 0)
    /\ UNCHANGED <<db, sess, ingested>>
    /\ UNCHANGED Rest

\* lines 414-418
ETFBegin ==
    /\ pc = PcETF
    /\ Goto(PcETFLoop, NoFrame)
    /\ UNCHANGED <<db, sess, ingested>>
    /\ UNCHANGED Rest

\* lines 420-428: what validation makes of a row
RowFields(row) ==
    LET trade_date == RowGet(row, "Date")
        close_value == RowGet(row, "Close")
        bad == [ok |-> FALSE, day |-> 0, value |-> 0]
    IN  IF ~Truthy(trade_date) \/ close_value = None \/ close_value = <<>> THEN bad
        ELSE LET d == FromIsoFormat(trade_date)
                 f == Float(close_value)
             IN  IF d.ok /\ f.ok THEN [ok |-> TRUE, day |-> d.day, value |-> f.v]
                 ELSE bad

\* an existence check that finds no row
TradeNothing(s, date) == {}

\* lines 430-439
TradeExisting(s, date) ==
    {t \in s.etf_trades :
        /\ t.date = date
        /\ t.etf = Etf
        /\ t.ticker = Etf
        /\ t.direction = DirectionClose}

\* lines 419-452: one pass of the loop over the rows
ETFRecord(row) ==
    /\ pc = PcETFLoop
    /\ Iterated(frame) < MaxRecs
    /\ LET val == RowFields(row)
           probe == (row = BaseRow)
       IN
       IF ~val.ok
       THEN /\ Goto(PcETFLoop,
                    [Skipped(frame, TagETF, probe, FALSE) EXCEPT
                        !.miscased = @ \/ (/\ row.header # HeaderCanonical
                                           /\ RowFields([row EXCEPT !.header =
                                                           HeaderCanonical]).ok)])
            /\ UNCHANGED sess
       ELSE LET q == OneOrNone(TradeExisting(sess, val.day)) IN
            IF q.kind = ResultMany
            THEN Raise(ExcMany) /\ UNCHANGED sess
            ELSE IF q.kind = ResultOne
            THEN /\ UNCHANGED sess
                 /\ Goto(PcETFLoop,
                         Discarded(frame, TagETF, probe, q.row.value_usd # val.value))
            ELSE /\ FactCount(sess) < MaxFacts
                 /\ sess' = [sess EXCEPT !.etf_trades = @ \cup
                               {[id |-> NextId(sess.etf_trades),
                                 date |-> val.day,
                                 etf |-> Etf,
                                 ticker |-> Etf,
                                 direction |-> DirectionClose,
                                 value_usd |-> val.value,
                                 source |-> SourceStooq]}]
                 /\ Goto(PcETFLoop, Staged(frame, TagETF, probe))
    /\ UNCHANGED <<db, ingested>>
    /\ UNCHANGED Rest

\* a flush or a query of the loop is refused by the store
ETFStoreError ==
    /\ pc = PcETFLoop
    /\ Iterated(frame) < MaxRecs
    /\ Raise(ExcStore)
    /\ UNCHANGED <<db, sess, ingested>>
    /\ UNCHANGED Rest

\* lines 454-462
ETFFinish(commitOk) ==
    /\ pc = PcETFLoop
    /\ Finish(TagETF, commitOk)
    /\ UNCHANGED Rest

(***************************************************************************)
(* Two runs of ingest_ark_trades at the same time, each on a session of    *)
(* its own, against the one store.  A session sees the committed rows and  *)
(* the rows it has added itself.  The rows a session has added are written *)
(* to the store when the session flushes, before its next query and at its *)
(* commit; from its first flush to the end of its transaction the session  *)
(* holds the write lock of the SQLite file, and a flush of the other       *)
(* session is refused ("database is locked", an OperationalError).         *)
(***************************************************************************)
Runs == {1, 2}

\* pending: the rows added and not committed, in the order of the adds;
\* locked: the session has flushed and holds the write lock; ids: the ids of
\* the rows the run's sessions have committed
NoRun == [pc |-> PcIdle, pending |-> <<>>, locked |-> FALSE, ids |-> {}]

OtherRun(r) == 3 - r

Range(seq) == {seq[i] : i \in 1..Len(seq)}

\* the price rows the session of run r sees
ViewOf(r) ==
    [EmptyTables EXCEPT !.etf_trades = db.etf_trades \cup Range(overlap[r].pending)]

\* the rows a commit writes: the pending rows with the ids SQLite gives them
Numbered(rows, pending) ==
    {[id |-> NextId(rows) + i - 1,
      date |-> pending[i].date,
      etf |-> pending[i].etf,
      ticker |-> pending[i].ticker,
      direction |-> pending[i].direction,
      value_usd |-> pending[i].value_usd,
      source |-> pending[i].source] : i \in 1..Len(pending)}

\* the session of run r needs the write lock and the other session holds it
Busy(r) == overlap[OtherRun(r)].locked

\* the exception leaves the run: its session is closed
Abandon(r) == [overlap EXCEPT ![r] = [NoRun EXCEPT !.ids = overlap[r].ids]]

\* lines 407-418: the feed is downloaded, on a new session
ConcurrentBegin(r) ==
    /\ pc = PcIdle
    /\ overlap[r].pc = PcIdle
    /\ overlap' = [overlap EXCEPT ![r].pc = PcETFLoop]
    /\ UNCHANGED <<db, sess, today, pc, exc, attempted, frame, printed, audit,
                   ingested, lastOp, issued>>

\* lines 419-452: one pass of the loop over the rows
ConcurrentRecord(r, row) ==
    /\ pc = PcIdle
    /\ overlap[r].pc = PcETFLoop
    /\ LET val == RowFields(row)
           me == overlap[r]
           flush == Len(me.pending) > 0 /\ ~me.locked
           q == OneOrNone(TradeExisting(ViewOf(r), val.day))
       IN
       IF ~val.ok
       THEN UNCHANGED overlap
       ELSE IF (flush /\ Busy(r)) \/ q.kind = ResultMany
       THEN overlap' = Abandon(r)
       ELSE IF q.kind = ResultOne
       THEN overlap' = [overlap EXCEPT ![r].locked = @ \/ flush]
       ELSE /\ Cardinality(db.etf_trades) + Len(overlap[1].pending)
                  + Len(overlap[2].pending) < MaxFacts
            /\ overlap' = [overlap EXCEPT
                             ![r].locked = @ \/ flush,
                             ![r].pending = Append(@,
                                 [date |-> val.day,
                                  etf |-> Etf,
                                  ticker |-> Etf,
                                  direction |-> DirectionClose,
                                  value_usd |-> val.value,
                                  source |-> SourceStooq])]
    /\ UNCHANGED <<db, sess, today, pc, exc, attempted, frame, printed, audit,
                   ingested, lastOp, issued>>

\* lines 454-462: the commit flushes what is pending; when the store refuses
\* it the session is rolled back
ConcurrentFinish(r) ==
    /\ pc = PcIdle
    /\ overlap[r].pc = PcETFLoop
    /\ LET me == overlap[r]
           rows == Numbered(db.etf_trades, me.pending)
       IN
       IF Len(me.pending) = 0 \/ (~me.locked /\ Busy(r))
       THEN /\ overlap' = Abandon(r)
            /\ UNCHANGED db
       ELSE /\ db' = [db EXCEPT !.etf_trades = @ \cup rows]
            /\ overlap' = [overlap EXCEPT
                             ![r] = [NoRun EXCEPT
                                       !.ids = me.ids \cup {t.id : t \in rows}]]
    /\ UNCHANGED <<sess, today, pc, exc, attempted, frame, printed, audit,
                   ingested, lastOp, issued>>

(***************************************************************************)
(* A direct client of the resolver: any sequence of get_or_create_company  *)
(* and get_or_create_fund calls on one session, with commits and rollbacks *)
(* of that session in between.  lastOp describes the last call; issued     *)
(* holds the identities the calls returned for rows that still exist.      *)
(***************************************************************************)
ResNames == {<<"A">>, <<"B">>}
ResTickers == {None, <<>>, <<"X">>, <<"Y">>}
ResCiks == {None, <<"7">>}
ResFundNames == {<<"F">>}
ResFundTypes == {None, <<>>, <<"T">>, <<"U">>}

OpInit == "init"
OpCompany == "get_or_create_company"
OpFund == "get_or_create_fund"
OpCommit == "commit"
OpRollback == "rollback"
NoOp == [op |-> OpInit, name |-> None, id |-> 0, repeat |-> FALSE, conflict |-> FALSE]

\* the table a resolver works on
TableOf(s, op) == IF op = OpCompany THEN s.companies ELSE s.funds

\* the call names a row that holds a value in a field for which it passes
\* another value
Conflict(stored, new) == Truthy(stored) /\ Truthy(new) /\ stored # new

CallCompany(name, ticker, cik) ==
    LET r == GetOrCreateCompany(sess, name, ticker, cik) IN
    /\ pc = PcIdle
    /\ r.exc = ExcNone
    /\ sess' = r.sess
    /\ issued' = issued \cup {[kind |-> OpCompany, name |-> name, id |-> r.id]}
    /\ lastOp' = [op |-> OpCompany, name |-> name, id |-> r.id,
                  repeat |-> \E i \in issued : i.kind = OpCompany /\ i.name = name,
                  conflict |-> \E c \in sess.companies :
                                  /\ c.name = name
                                  /\ Conflict(c.ticker, ticker) \/ Conflict(c.cik, cik)]
    /\ UNCHANGED <<db, today, pc, exc, attempted, frame, printed, audit, ingested, overlap>>

CallFund(name, fund_type) ==
    LET r == GetOrCreateFund(sess, name, fund_type) IN
    /\ pc = PcIdle
    /\ r.exc = ExcNone
    /\ sess' = r.sess
    /\ issued' = issued \cup {[kind |-> OpFund, name |-> name, id |-> r.id]}
    /\ lastOp' = [op |-> OpFund, name |-> name, id |-> r.id,
                  repeat |-> \E i \in issued : i.kind = OpFund /\ i.name = name,
                  conflict |-> \E f \in sess.funds :
                                  f.name = name /\ Conflict(f.type, fund_type)]
    /\ UNCHANGED <<db, today, pc, exc, attempted, frame, printed, audit, ingested, overlap>>

\* session.commit()
ClientCommit ==
    /\ pc = PcIdle
    /\ db' = Commit(db, sess)
    /\ lastOp' = [NoOp EXCEPT !.op = OpCommit]
    /\ UNCHANGED <<sess, issued, today, pc, exc, attempted, frame, printed, audit, ingested, overlap>>

\* session.rollback(): the rows that were never committed are gone
ClientRollback ==
    /\ pc = PcIdle
    /\ sess' = Rollback(db, sess)
    /\ issued' = {i \in issued : \E r \in TableOf(db, i.kind) :
                                    r.name = i.name /\ r.id = i.id}
    /\ lastOp' = [NoOp EXCEPT !.op = OpRollback]
    /\ UNCHANGED <<db, today, pc, exc, attempted, frame, printed, audit, ingested, overlap>>

vars == <<db, sess, today, pc, exc, attempted, frame, printed, audit, ingested,
          lastOp, issued, overlap>>

Init ==
    /\ db = EmptyTables
    /\ sess = EmptyTables
    /\ today = 2
    /\ pc = PcIdle
    /\ exc = ExcNone
    /\ attempted = {}
    /\ frame = NoFrame
    /\ printed = Silent
    /\ audit = FALSE
    /\ ingested = {}
    /\ lastOp = NoOp
    /\ issued = {}
    /\ overlap = [r \in Runs |-> NoRun]

Next ==
    \/ StartRun
    \/ Tick
    \/ \E resp \in Responses : F13FetchFails(resp)
    \/ F13BadJson
    \/ \E name \in SubmissionNames, index \in Indexes : F13Select(name, index)
    \/ \E resp \in Responses : F13Request(resp)
    \/ \E xmlOk \in BOOLEAN : F13Document(xmlOk)
    \/ \E item \in Items : F13Record(item)
    \/ F13StoreError
    \/ \E commitOk \in BOOLEAN : F13Finish(commitOk)
    \/ \E resp \in Responses : AwardsFetchFails(resp)
    \/ AwardsBadJson
    \/ AwardsBegin
    \/ \E award \in Awards : AwardsRecord(award)
    \/ AwardsStoreError
    \/ \E commitOk \in BOOLEAN : AwardsFinish(commitOk)
    \/ \E resp \in Responses : PatentsFetchFails(resp)
    \/ PatentsBadJson
    \/ PatentsBegin
    \/ \E work \in Works : PatentsRecord(work)
    \/ PatentsStoreError
    \/ \E commitOk \in BOOLEAN : PatentsFinish(commitOk)
    \/ \E resp \in Responses : ETFFetchFails(resp)
    \/ ETFBegin
    \/ \E row \in Rows : ETFRecord(row)
    \/ ETFStoreError
    \/ \E commitOk \in BOOLEAN : ETFFinish(commitOk)
    \/ Close

Spec == Init /\ [][Next]_vars

\* the same runs, with the record of what each committed batch ingested
InitRerun ==
    /\ db = EmptyTables
    /\ sess = EmptyTables
    /\ today = 2
    /\ pc = PcIdle
    /\ exc = ExcNone
    /\ attempted = {}
    /\ frame = NoFrame
    /\ printed = Silent
    /\ audit = TRUE
    /\ ingested = {}
    /\ lastOp = NoOp
    /\ issued = {}
    /\ overlap = [r \in Runs |-> NoRun]

SpecRerun == InitRerun /\ [][Next]_vars

NextResolver ==
    \/ \E n \in ResNames, t \in ResTickers, c \in ResCiks : CallCompany(n, t, c)
    \/ \E n \in ResFundNames, ft \in ResFundTypes : CallFund(n, ft)
    \/ ClientCommit
    \/ ClientRollback

SpecResolver == Init /\ [][NextResolver]_vars

NextOverlap ==
    \/ \E r \in Runs : ConcurrentBegin(r)
    \/ \E r \in Runs, row \in Rows : ConcurrentRecord(r, row)
    \/ \E r \in Runs : ConcurrentFinish(r)

SpecOverlap == Init /\ [][NextOverlap]_vars

(***************************************************************************)
(* Properties                                                              *)
(***************************************************************************)

\* C1: a record that a committed batch has ingested is not staged again when
\* a later run ingests the same payload
C1_NoRowForIngestedRecord == ~frame.readded

\* the rows a second ingestion adds come from a filing whose date cannot be
\* parsed
OnlyUndatedFilingsAreReadded == frame.readded => frame.filed = NotIso

\* the identity the last call returned
LastIssued == [kind |-> lastOp.op, name |-> lastOp.name, id |-> lastOp.id]

\* C2: two calls of a resolver with the same name on one session return the
\* same identity, whatever optional fields are passed and whether or not a
\* commit happened in between, and the second call creates no row
C2_ResolverIdempotent ==
    /\ [](\A i, j \in issued : i.kind = j.kind /\ i.name = j.name => i.id = j.id)
    /\ [][(lastOp'.op \in {OpCompany, OpFund} /\ lastOp'.repeat) =>
            /\ [kind |-> lastOp'.op, name |-> lastOp'.name, id |-> lastOp'.id] \in issued
            /\ {r.id : r \in TableOf(sess', lastOp'.op)} =
                    {r.id : r \in TableOf(sess, lastOp'.op)}
            /\ Cardinality(TableOf(sess', lastOp'.op)) =
                    Cardinality(TableOf(sess, lastOp'.op))]_vars

\* a company is resolved again after its row was committed, with other
\* optional fields than the row holds
C2_ResolvedAgainAfterCommit ==
    /\ lastOp.op = OpCompany
    /\ lastOp.repeat
    /\ lastOp.conflict
    /\ \E c \in db.companies : c.name = lastOp.name /\ c.id = lastOp.id

\* the rows of table t of s that hold a value in field f which the row of the
\* same id in s2 does not hold; IsSet says what holding a value means
Overwritten(s, s2, IsSet(_)) ==
    {c \in s.companies :
        \/ IsSet(c.ticker) /\ \A d \in s2.companies : d.id = c.id => d.ticker # c.ticker
        \/ IsSet(c.cik) /\ \A d \in s2.companies : d.id = c.id => d.cik # c.cik}
    \cup
    {f \in s.funds :
        IsSet(f.type) /\ \A g \in s2.funds : g.id = f.id => g.type # f.type}

NotNull(x) == x # None

\* C3 as stated: once an optional field of a dimension row holds a non-null
\* value, no later resolver call changes or clears it
C3_NonNullFieldKept ==
    [][lastOp'.op \in {OpCompany, OpFund} => Overwritten(sess, sess', NotNull) = {}]_vars

\* C3: once an optional field of a dimension row holds a non-empty value, no
\* later resolver call changes or clears it
C3_NonEmptyFieldKept ==
    [][lastOp'.op \in {OpCompany, OpFund} => Overwritten(sess, sess', Truthy) = {}]_vars

\* a resolver call has passed another value for a field that holds one
C3_SecondWriterIgnored == lastOp.conflict

\* C4: when the commit of a connector fails, nothing the batch staged is
\* persisted or left pending: the committed state is as before the batch and
\* the session holds nothing more than the committed state
C4_CommitFailureDropsBatch ==
    [][printed'.msg = MsgCommit =>
          /\ db' = db
          /\ sess' = db
          /\ exc' = ExcNone]_vars

\* the commit of an awards batch has failed; the batch had staged awards for
\* companies that no committed row names
C4_AwardsCommitFailed ==
    /\ printed.msg = MsgCommit
    /\ printed.tag = TagAwards
    /\ db.companies = {}
    /\ sess = db

\* C5: when run_daily reaches its finally block, all four connectors have
\* been attempted and no exception is on its way out of run_daily
C5_EveryConnectorAttempted ==
    pc = PcFinally => attempted = Connectors /\ exc = ExcNone

\* C6: a connector whose fetch fails (no answer, a non-success status, no
\* 13F-HR filing, no detail document) returns without raising, has processed
\* no record, and leaves the committed state and the session as they were
C6_FetchFailureReturns ==
    [][printed'.msg \in {MsgFetch, MsgNoFiling, MsgNoDocument} =>
          /\ exc' = ExcNone
          /\ pc' = AfterOf(printed'.tag)
          /\ Iterated(frame) = 0
          /\ db' = db
          /\ sess' = sess]_vars

\* the awards fetch has failed while the session held rows not yet committed
C6_AwardsFetchFailedWithPending ==
    /\ printed.msg = MsgFetch
    /\ printed.tag = TagAwards
    /\ sess # db

\* C7: a body that cannot be parsed makes the connector return without
\* raising: no JSONDecodeError leaves a connector
C7_ParseFailureReturns == exc # ExcJson

\* C8: a record that fails validation does not abort the batch: no error of
\* a single record leaves a connector
C8_InvalidRecordDoesNotAbort == exc \notin {ExcType, ExcIndex}

\* the natural key of a fact row, by table
HoldingKey(h) == <<h.date, h.fund_id, h.company_id, h.source>>
AwardKey(a) == <<a.date, a.company_id, a.amount_usd, a.source>>
PatentKey(p) == <<p.pub_date, p.company_id, p.title>>
TradeKey(t) == <<t.date, t.etf, t.ticker, t.direction>>

\* no two fact rows of s have the same natural key
KeysUnique(s) ==
    /\ \A a, b \in s.holdings : HoldingKey(a) = HoldingKey(b) => a = b
    /\ \A a, b \in s.awards : AwardKey(a) = AwardKey(b) => a = b
    /\ \A a, b \in s.patents : PatentKey(a) = PatentKey(b) => a = b
    /\ \A a, b \in s.etf_trades : TradeKey(a) = TradeKey(b) => a = b

\* every fact row of s is a row of s2, as it was
FactsKept(s, s2) ==
    /\ s.holdings \subseteq s2.holdings
    /\ s.awards \subseteq s2.awards
    /\ s.patents \subseteq s2.patents
    /\ s.etf_trades \subseteq s2.etf_trades

LoopPcs == {Pc13FLoop, PcAwardsLoop, PcPatentsLoop, PcETFLoop}

\* C9: of the candidates with one natural key only the first becomes a row,
\* in one batch or across runs: no two rows share a natural key, a pass of a
\* loop leaves the rows of the session as they are, and a committed row is
\* never changed or removed
C9_NaturalKeyDominance ==
    /\ [](KeysUnique(sess) /\ KeysUnique(db))
    /\ [][/\ FactsKept(db, db')
          /\ (pc \in LoopPcs /\ pc' = pc) => FactsKept(sess, sess')]_vars

\* the dedup gate has discarded a candidate that had the natural key of a
\* stored row and other metadata
C9_DifferingCandidateDiscarded == frame.differs /\ frame.dup > 0

\* s without the awards whose amount is not a number
WithoutNaN(s) == [s EXCEPT !.awards = {a \in @ : a.amount_usd # NaN}]

\* what the code does for C9: the rows whose natural key holds no NaN
NaturalKeyDominanceOfNumbers ==
    /\ [](KeysUnique(WithoutNaN(sess)) /\ KeysUnique(WithoutNaN(db)))
    /\ [][/\ FactsKept(db, db')
          /\ (pc \in LoopPcs /\ pc' = pc) => FactsKept(sess, sess')]_vars

\* C10: a filing table of 3 line items, one without a value and two that
\* are staged, filed for a fund not yet stored: the connector commits 1 fund,
\* at most 2 companies and 2 holdings whose pos_usd is 1000 times a reported
\* value, and reports 1 skip
C10_FilingScenario ==
    [][(/\ pc = Pc13FLoop
        /\ printed'.msg = MsgUpserted
        /\ Iterated(frame) = 3
        /\ frame.novalue = 1
        /\ frame.created = 2
        /\ db.funds = {}) =>
          /\ Cardinality(db'.funds) = 1
          /\ Cardinality(db'.companies \ db.companies) <= 2
          /\ Cardinality(db'.holdings \ db.holdings) = 2
          /\ \A h \in db'.holdings \ db.holdings : h.pos_usd \in {5 * 1000, 12 * 1000}
          /\ printed'.count = 2
          /\ CountSkipped \in CountsReported(printed'.msg)]_vars

\* what the code does in the scenario of C10: all of it but the report of
\* the skip
FilingScenarioWithoutSkipReport ==
    [][(/\ pc = Pc13FLoop
        /\ printed'.msg = MsgUpserted
        /\ Iterated(frame) = 3
        /\ frame.novalue = 1
        /\ frame.created = 2
        /\ db.funds = {}) =>
          /\ Cardinality(db'.funds) = 1
          /\ Cardinality(db'.companies \ db.companies) <= 2
          /\ Cardinality(db'.holdings \ db.holdings) = 2
          /\ \A h \in db'.holdings \ db.holdings : h.pos_usd \in {5 * 1000, 12 * 1000}
          /\ printed'.count = 2]_vars

\* the scenario of C10 has been run
FilingScenarioRun ==
    /\ printed.tag = Tag13F
    /\ printed.msg = MsgUpserted
    /\ printed.count = 2
    /\ Cardinality(db.holdings) = 2
    /\ Cardinality(db.funds) = 1

\* C11: no two persisted rows of a fact table share a natural key
C11_PersistedKeysUnique == KeysUnique(db)

\* every reference of a fact row of s is the id of a dimension row of s
NoDangling(s) ==
    /\ \A h \in s.holdings :
          /\ \E f \in s.funds : f.id = h.fund_id
          /\ \E c \in s.companies : c.id = h.company_id
    /\ \A a \in s.awards : \E c \in s.companies : c.id = a.company_id
    /\ \A p \in s.patents : \E c \in s.companies : c.id = p.company_id

\* C12: every fund_id and company_id of a persisted fact row is the id of a
\* persisted dimension row, whatever commits have failed
C12_NoDanglingReference == NoDangling(db)

\* holdings are persisted and the commit of a later batch has just failed
C12_HoldingsKeptAfterFailedCommit ==
    /\ db.holdings # {}
    /\ printed.msg = MsgCommit

\* C13: the failed commit and rollback of a connector changes nothing in the
\* tables that only other connectors work on
C13_RollbackLeavesOthersAlone ==
    [][printed'.msg = MsgCommit =>
          \A t \in DOMAIN sess : t \notin Touches(printed'.tag) => sess'[t] = sess[t]]_vars

\* C14: a persisted fact row stays persisted, with the values it has
C14_FactsAppendOnly == [][FactsKept(db, db')]_vars

\* an ETF batch has committed one price where another price was persisted by
\* the ETF batch of an earlier run
C14_PriceKeptAcrossRuns ==
    /\ printed.tag = TagETF
    /\ printed.msg = MsgUpserted
    /\ printed.count = 1
    /\ Cardinality(db.etf_trades) = 2

\* C16: a connector that has staged no fact row leaves nothing pending when
\* it returns; for the first connector of a run: the session holds what is
\* committed and no more
C16_ZeroStagedLeavesNothingPending ==
    (pc = PcAwards /\ printed.msg = MsgUpserted /\ printed.count = 0) => sess = db

\* the fact rows of s2 that are not rows of s, by table
NewHoldings(s, s2) == s2.holdings \ s.holdings
NewAwards(s, s2) == s2.awards \ s.awards
NewPatents(s, s2) == s2.patents \ s.patents
NewTrades(s, s2) == s2.etf_trades \ s.etf_trades

\* C17: a pass of a loop that skips the record at validation changes no
\* table (no resolver call); a pass that discards it at the dedup gate
\* stages nothing; a pass that stages it adds one fact row, which refers to
\* the dimension rows resolved for it and whose natural key the dedup check
\* did not find in the session
C17_StageOrder ==
    [][(pc \in LoopPcs /\ pc' = pc) =>
          /\ frame'.invalid > frame.invalid => sess' = sess
          /\ frame'.dup > frame.dup =>
                FactsKept(sess, sess') /\ FactsKept(sess', sess)
          /\ frame'.created > frame.created =>
                /\ FactsKept(sess, sess')
                /\ FactCount(sess') = FactCount(sess) + 1
                /\ NoDangling(sess')
                /\ \A h \in NewHoldings(sess, sess') :
                      \A g \in sess.holdings : HoldingKey(g) # HoldingKey(h)
                /\ \A a \in NewAwards(sess, sess') :
                      AwardExisting(sess, a.date, a.company_id, a.amount_usd) = {}
                /\ \A p \in NewPatents(sess, sess') :
                      \A q \in sess.patents : PatentKey(q) # PatentKey(p)
                /\ \A t \in NewTrades(sess, sess') :
                      \A u \in sess.etf_trades : TradeKey(u) # TradeKey(t)]_vars

\* one batch has had a record skipped at validation, one discarded by the
\* dedup gate and one staged
C17_AllThreeOutcomes == frame.invalid > 0 /\ frame.dup > 0 /\ frame.created > 0

\* C18: the candidates are requested in the order form13fInfoTable.xml,
\* infotable.xml, primary_doc.xml; a candidate that fails is followed by the
\* next; the document used is the first that answers successfully and none
\* is requested after it; when none answers the connector returns and the
\* persisted state is as it was
C18_DocumentLookup ==
    /\ [](pc = Pc13FDoc =>
            frame.doc \in {"", <<"form13fInfoTable.xml", "infotable.xml",
                                "primary_doc.xml">>[Max({1, frame.requests})]})
    /\ [][(pc = Pc13FDoc /\ pc' = Pc13FDoc) =>
             /\ frame.doc = ""
             /\ frame'.requests = frame.requests + 1
             /\ frame'.requests <= 3]_vars
    /\ [][(pc = Pc13FDoc /\ pc' = Pc13FLoop) => frame.doc # ""]_vars
    /\ [][printed'.msg = MsgNoDocument =>
             /\ frame.doc = ""
             /\ frame.requests = 3
             /\ db' = db
             /\ sess' = sess
             /\ exc' = ExcNone]_vars

\* the first candidate has failed and the second has answered
C18_SecondCandidateUsed ==
    /\ pc = Pc13FDoc
    /\ frame.requests = 2
    /\ frame.doc = "infotable.xml"

\* C19: the filing that is used is, of the 13F-HR entries of the index, the
\* one with the latest filing date
C19_LatestFilingSelected == pc = Pc13FDoc => frame.latest

\* C20: a row is skipped only when its date or value is missing or cannot be
\* parsed: no row that holds both under column names in another casing is
\* skipped
C20_AlternateCasingIngested == ~frame.miscased

\* C15: with two runs on sessions of their own, each run stages a price only
\* when its existence check finds no row with the key, and no run persists a
\* key twice by itself; yet the store comes to hold two rows with one key
C15_EachRunChecksBeforeStaging ==
    /\ [][\A r \in Runs :
            Len(overlap'[r].pending) > Len(overlap[r].pending) =>
               \A t \in db.etf_trades \cup Range(overlap[r].pending) :
                  t.date # overlap'[r].pending[Len(overlap'[r].pending)].date]_vars
    /\ [](\A a, b \in db.etf_trades :
            (a # b /\ TradeKey(a) = TradeKey(b)) =>
               ~\E r \in Runs : {a.id, b.id} \subseteq overlap[r].ids)

\* two persisted prices have the same natural key
C15_DuplicatePersisted ==
    \E a, b \in db.etf_trades : a # b /\ TradeKey(a) = TradeKey(b)

\* no two rows of a dimension table of s have the same name
NamesUnique(s) ==
    /\ \A a, b \in s.companies : a.name = b.name => a = b
    /\ \A a, b \in s.funds : a.name = b.name => a = b

\* the company row of each award and patent of s has exactly the name the
\* record gave
NamesExact(s) ==
    /\ \A a \in s.awards :
          \A c \in s.companies : c.id = a.company_id => c.name = a.recipient
    /\ \A p \in s.patents :
          \A c \in s.companies :
             c.id = p.company_id =>
                c.name = (IF Truthy(p.assignee) THEN p.assignee ELSE FirstWord(p.title))

\* C21: no two persisted company rows and no two persisted fund rows have
\* the same name, and a name that differs from another in any character has
\* a row of its own: each record refers to the row with exactly its name
C21_DimensionNamesUniqueAndExact ==
    /\ NamesUnique(db) /\ NamesUnique(sess)
    /\ NamesExact(db) /\ NamesExact(sess)

\* two companies are persisted whose names differ only in a trailing blank
C21_NamesDifferingInABlank ==
    /\ \E c \in db.companies : c.name = <<"A">>
    /\ \E c \in db.companies : c.name = <<"A", " ">>
    /\ \E a \in db.awards : a.recipient = <<"A", " ">>

\* the dimension rows of the tables s
Dimensions(s) == <<s.companies, s.funds>>

\* C22: a connector that ends with zero staged fact rows leaves the
\* dimension rows it created or backfilled pending in the shared session;
\* the committed tables change only when a connector commits successfully,
\* and then everything pending becomes persistent; a connector's rollback
\* and run_daily's close of the session discard whatever is pending
C22_DeferredDimensionDurability ==
    [][ /\ (printed'.msg = MsgUpserted /\ printed'.count = 0)
            => (db' = db /\ sess' = sess)
        /\ (printed'.msg = MsgUpserted /\ printed'.count > 0)
            => (db' = sess /\ sess' = sess)
        /\ (db' # db)
            => (printed'.msg = MsgUpserted /\ printed'.count > 0)
        /\ (printed'.msg = MsgCommit \/ pc = PcFinally)
            => (db' = db /\ Dimensions(sess') = Dimensions(db)) ]_vars

\* a fund is persisted with no holding: the 13F connector left it pending
\* and a later connector's commit made it persistent
C22_PendingFundPersistedLater ==
    /\ db.funds # {}
    /\ db.holdings = {}
    /\ db.awards # {} \/ db.patents # {} \/ db.etf_trades # {}

\* a fund left pending by the 13F connector is about to be discarded by the
\* close of the session
PendingFundAtClose ==
    /\ pc = PcFinally
    /\ sess.funds # {}
    /\ db.funds = {}
    /\ sess.holdings = {}

====
